---- MODULE Spec2Model ----
(***************************************************************************)
(* A model of classtools: the attribute descriptors classproperty, reify,  *)
(* weakattr and frozenproperty and the class decorator keyed_ordering.     *)
(*                                                                         *)
(* An instance's __dict__ is a function whose DOMAIN is the set of names   *)
(* it holds.  Objects are the numbers 1..NumObjs, None is 0.  Every        *)
(* component has its own specification (SpecClass, SpecReify, SpecWeak,    *)
(* SpecFrozen, SpecOrder); the components share no state, as in the        *)
(* source.  SpecReifyThreads has several threads read a reify property,    *)
(* SpecDecorate applies keyed_ordering to every class body.                *)
(***************************************************************************)
EXTENDS Integers, Sequences, FiniteSets, TLC

NumInst == 2
NumObjs == 2
MaxCalls == 3
MaxCoord == 3
NumThreads == 3

None == 0

Insts == 1..NumInst
Objs == 1..NumObjs
Threads == 1..NumThreads

VARIABLES
    preads,       \* classproperty: reads of the property through the class (0) and each instance
    pcalls,       \* classproperty: calls of fget those reads made
    installedAs,  \* reify: the name the descriptor is bound to in the class body
    rdict,        \* reify: __dict__ of each instance of the host class
    rcalls,       \* reify: calls of the wrapped method since creation / the last successful delete
    tpc,          \* reify, threads: where each thread stands in its read
    tval,         \* reify, threads: what the wrapped method returned to each thread
    returned,     \* reify, threads: the values the reads of the shared instance have returned
    wdict,        \* weakattr: __dict__ of each instance of the host class
    strong,       \* weakattr: the objects some owner other than a weakattr entry holds
    alive,        \* weakattr: the objects not yet reclaimed
    wassigned,    \* weakattr: the object last assigned to the attribute of each instance
    wdeleted,     \* weakattr: whether a delete has succeeded on the instance since that assignment
    fdict,        \* frozenproperty: __dict__ of each instance of the host class
    fcalls,       \* frozenproperty: calls of fget on each instance so far
    cbody,        \* keyed_ordering: __dict__ of the class handed to the decorator
    status,       \* keyed_ordering: "raw", or how the last application ended
    installed,    \* keyed_ordering: the names the last application set on the class
    operands,     \* keyed_ordering: the two values compared, once created
    cmp,          \* keyed_ordering: the last comparison method called and its result
    last          \* the last operation: what it was, on what, what it returned or raised

vars == <<preads, pcalls, installedAs, rdict, rcalls, tpc, tval, returned, wdict, strong, alive, wassigned, wdeleted, fdict, fcalls,
          cbody, status, installed, operands, cmp, last>>
classVars == <<preads, pcalls>>
reifyVars == <<installedAs, rdict, rcalls>>
threadVars == <<tpc, tval, returned>>
weakVars == <<wdict, strong, alive, wassigned, wdeleted>>
frozenVars == <<fdict, fcalls>>
orderVars == <<cbody, status, installed, operands, cmp>>
notClass == <<reifyVars, threadVars, weakVars, frozenVars, orderVars>>
notReify == <<classVars, threadVars, weakVars, frozenVars, orderVars>>
notThread == <<classVars, weakVars, frozenVars, orderVars>>
notWeak == <<classVars, reifyVars, threadVars, frozenVars, orderVars>>
notFrozen == <<classVars, reifyVars, threadVars, weakVars, orderVars>>
notOrder == <<classVars, reifyVars, threadVars, weakVars, frozenVars, last>>

EmptyDict == [n \in {} |-> None]

NoOp == [op |-> "init", inst |-> 0, arg |-> None, ret |-> None, exc |-> "none", invoked |-> 0]

Returned(op, i, arg, v, k) ==
    [op |-> op, inst |-> i, arg |-> arg, ret |-> v, exc |-> "none", invoked |-> k]

Raised(op, i, arg, e, k) ==
    [op |-> op, inst |-> i, arg |-> arg, ret |-> None, exc |-> e, invoked |-> k]

(***************************************************************************)
(* The attribute protocol the descriptors are written against.             *)
(***************************************************************************)

\* reify written as a data descriptor, the way property is
DefinesSetLikeProperty(kind) == kind \in {"weakattr", "reify"}

\* Which of __set__ / __delete__ a descriptor class defines.
DefinesSet(kind) == kind = "weakattr"

DefinesDelete(kind) == kind = "weakattr"

IsDataDescriptor(kind) == DefinesSet(kind) \/ DefinesDelete(kind)

\* Where a read of inst.name is served from: a data descriptor of the class
\* wins over the instance dict, the instance dict over any other descriptor.
LookupPath(cls, d, name) ==
    IF name \in DOMAIN cls /\ IsDataDescriptor(cls[name]) THEN "data"
    ELSE IF name \in DOMAIN d THEN "dict"
    ELSE IF name \in DOMAIN cls THEN "descr"
    ELSE "missing"

DictSet(d, name, v) ==
    [n \in DOMAIN d \cup {name} |-> IF n = name THEN v ELSE d[n]]

DictDel(d, name) == [n \in DOMAIN d \ {name} |-> d[n]]

(***************************************************************************)
(* classproperty                                                           *)
(***************************************************************************)

\* The class Reflector, told apart from None and from its instances 1..NumInst
Reflector == NumInst + 1

\* The accessor "me": returns what it was called with
Fget(x) == x

\* a descriptor that hands the accessor the instance when there is one
ClassGetWithInstance(self, cls) ==
    LET x == IF self = None THEN cls ELSE self IN
    [arg |-> x, ret |-> Fget(x), invoked |-> 1]

\* classproperty.__get__(desc, self, cls)
ClassGet(self, cls) == [arg |-> cls, ret |-> Fget(cls), invoked |-> 1]

ClassStart ==
    /\ preads = [r \in {None} \cup Insts |-> 0]
    /\ pcalls = [r \in {None} \cup Insts |-> 0]

\* Reflector.me (r = None) or inst.me: the class holds the descriptor, the
\* interpreter calls __get__ with the instance, or None, and the class.
ClassRead(r) ==
    /\ preads[r] < MaxCalls
    /\ LET g == ClassGet(r, Reflector) IN
         /\ last' = Returned("read", r, g.arg, g.ret, g.invoked)
         /\ pcalls' = [pcalls EXCEPT ![r] = @ + g.invoked]
    /\ preads' = [preads EXCEPT ![r] = @ + 1]
    /\ UNCHANGED notClass

ClassNext == \E r \in {None} \cup Insts : ClassRead(r)

(***************************************************************************)
(* reify                                                                   *)
(***************************************************************************)

\* wrapped.__name__ of the decorated method
WrappedName == "attr"

\* The class body: the reify descriptor under the name it is installed as.
LazyClass == [n \in {installedAs} |-> "reify"]

\* a __get__ that returns the value and stores nothing
ReifyGetNoStore(d, val) == d

\* a __get__ that caches under a name of its own
ReifyGetElsewhere(d, val) == DictSet(d, "bar", val)

\* a __get__ that keeps the value another read has stored meanwhile
ReifyGetKeepFirst(d, val) ==
    IF WrappedName \in DOMAIN d THEN d ELSE DictSet(d, WrappedName, val)

\* a __get__ that stores under the name the descriptor is installed as
ReifyGetUnderInstalledName(d, val) == DictSet(d, installedAs, val)

\* reify.__get__ after the wrapped method returned val: setattr(inst, name, val)
ReifyGet(d, val) == DictSet(d, WrappedName, val)

\* The decorator form, "@reify def attr(self)": installed under the method's name.
ReifyStart ==
    /\ installedAs = WrappedName
    /\ rdict = [i \in Insts |-> EmptyDict]
    /\ rcalls = [i \in Insts |-> 0]

\* The call form under another name, "alias = reify(attr)": the descriptor is
\* installed under some name that is not the method's.
AliasNames == {"alias", "cached", "lazy"}

ReifyStartAlias ==
    /\ installedAs \in AliasNames
    /\ rdict = [i \in Insts |-> EmptyDict]
    /\ rcalls = [i \in Insts |-> 0]

\* value = inst.<installedAs>
ReifyRead(i) ==
    LET path == LookupPath(LazyClass, rdict[i], installedAs) IN
    /\ \/ /\ path = "dict"
          /\ last' = Returned("read", i, None, rdict[i][installedAs], 0)
          /\ UNCHANGED reifyVars
       \/ /\ path \in {"descr", "data"}
          /\ rcalls[i] < MaxCalls
          /\ \E val \in Objs :
               /\ rdict' = [rdict EXCEPT ![i] = ReifyGet(rdict[i], val)]
               /\ last' = Returned("read", i, None, val, 1)
          /\ rcalls' = [rcalls EXCEPT ![i] = @ + 1]
          /\ UNCHANGED installedAs
    /\ UNCHANGED notReify

\* inst.<installedAs> = v
ReifyWrite(i, v) ==
    /\ ~ DefinesSet(LazyClass[installedAs])
    /\ rdict' = [rdict EXCEPT ![i] = DictSet(rdict[i], installedAs, v)]
    /\ last' = Returned("write", i, v, None, 0)
    /\ UNCHANGED <<installedAs, rcalls>>
    /\ UNCHANGED notReify

\* del inst.<installedAs>
ReifyDelete(i) ==
    /\ ~ DefinesDelete(LazyClass[installedAs])
    /\ \/ /\ installedAs \in DOMAIN rdict[i]
          /\ rdict' = [rdict EXCEPT ![i] = DictDel(rdict[i], installedAs)]
          /\ rcalls' = [rcalls EXCEPT ![i] = 0]
          /\ last' = Returned("delete", i, None, None, 0)
          /\ UNCHANGED installedAs
       \/ /\ installedAs \notin DOMAIN rdict[i]
          /\ last' = Raised("delete", i, None, "AttributeError", 0)
          /\ UNCHANGED reifyVars
    /\ UNCHANGED notReify

ReifyNext ==
    \/ \E i \in Insts : ReifyRead(i)
    \/ \E i \in Insts, v \in Objs : ReifyWrite(i, v)
    \/ \E i \in Insts : ReifyDelete(i)

(***************************************************************************)
(* reify read by several threads.  A read is three steps, and another      *)
(* thread may run between any two: the attribute lookup, the call of the   *)
(* wrapped method, and the setattr followed by the return.                 *)
(***************************************************************************)

\* The instance the threads share
Shared == CHOOSE i \in Insts : TRUE

ThreadStart ==
    /\ tpc = [t \in Threads |-> "idle"]
    /\ tval = [t \in Threads |-> None]
    /\ returned = {}

\* Thread t evaluates inst.<installedAs>: the lookup either finds the value
\* in the instance dict, and the read is over, or enters reify.__get__.
ThreadLookup(t) ==
    LET path == LookupPath(LazyClass, rdict[Shared], installedAs) IN
    /\ tpc[t] = "idle"
    /\ \/ /\ path = "dict"
          /\ last' = Returned("read", Shared, None, rdict[Shared][installedAs], 0)
          /\ returned' = returned \cup {rdict[Shared][installedAs]}
          /\ UNCHANGED <<tpc, tval>>
       \/ /\ path \in {"descr", "data"}
          /\ tpc' = [tpc EXCEPT ![t] = "get"]
          /\ UNCHANGED <<tval, returned, last>>
    /\ UNCHANGED reifyVars
    /\ UNCHANGED notThread

\* val = self.wrapped(inst), in thread t
ThreadCompute(t) ==
    /\ tpc[t] = "get"
    /\ \E val \in Objs : tval' = [tval EXCEPT ![t] = val]
    /\ rcalls' = [rcalls EXCEPT ![Shared] = @ + 1]
    /\ tpc' = [tpc EXCEPT ![t] = "store"]
    /\ UNCHANGED <<installedAs, rdict, returned, last>>
    /\ UNCHANGED notThread

\* setattr(inst, self.wrapped.__name__, val); return val, in thread t
ThreadStore(t) ==
    /\ tpc[t] = "store"
    /\ rdict' = [rdict EXCEPT ![Shared] = ReifyGet(rdict[Shared], tval[t])]
    /\ last' = Returned("read", Shared, None, tval[t], 1)
    /\ returned' = returned \cup {tval[t]}
    /\ tpc' = [tpc EXCEPT ![t] = "idle"]
    /\ tval' = [tval EXCEPT ![t] = None]
    /\ UNCHANGED <<installedAs, rcalls>>
    /\ UNCHANGED notThread

ThreadNext ==
    \/ \E t \in Threads : ThreadLookup(t)
    \/ \E t \in Threads : ThreadCompute(t)
    \/ \E t \in Threads : ThreadStore(t)

(***************************************************************************)
(* weakattr                                                                *)
(***************************************************************************)

\* desc.name, the key the weakref is stored under: bar = weakattr('bar')
StorageKey == "bar"

FooClass == [n \in {"bar"} |-> "weakattr"]

\* What can be assigned: an object, or a value of a type that has no weak
\* references (None is one).
Unrefable == {None}
Values == Objs \cup Unrefable

\* an entry that owns its referent
StrongRef(v) == [obj |-> v, weak |-> FALSE]

\* weakref.ref(value), for a value that can be weakly referenced
WeakRef(v) == [obj |-> v, weak |-> TRUE]

WeakRefable(v) == v \in Objs

\* ref(): the referent, or None once it is reclaimed
Deref(ref, alv) == IF ref.weak /\ ref.obj \notin alv THEN None ELSE ref.obj

\* a __get__ that lets the KeyError of a missing entry out
WeakGetUnguarded(d, alv) ==
    IF StorageKey \notin DOMAIN d
    THEN [dict |-> d, ret |-> None, exc |-> "KeyError"]
    ELSE [dict |-> d, ret |-> Deref(d[StorageKey], alv), exc |-> "none"]

\* a __get__ that leaves the entry of a reclaimed referent where it is
WeakGetNoCleanup(d, alv) ==
    IF StorageKey \notin DOMAIN d
    THEN [dict |-> d, ret |-> None, exc |-> "none"]
    ELSE [dict |-> d, ret |-> Deref(d[StorageKey], alv), exc |-> "none"]

\* weakattr.__get__
WeakGet(d, alv) ==
    IF StorageKey \notin DOMAIN d
    THEN [dict |-> d, ret |-> None, exc |-> "none"]
    ELSE LET value == Deref(d[StorageKey], alv) IN
         [dict |-> IF value = None THEN DictDel(d, StorageKey) ELSE d,
          ret |-> value, exc |-> "none"]

\* a __set__ that keeps the value itself when it cannot be weakly referenced
WeakSetFallback(d, v) ==
    [dict |-> DictSet(d, StorageKey, IF WeakRefable(v) THEN WeakRef(v) ELSE StrongRef(v)),
     exc |-> "none"]

\* weakattr.__set__
WeakSet(d, v) ==
    IF WeakRefable(v)
    THEN [dict |-> DictSet(d, StorageKey, WeakRef(v)), exc |-> "none"]
    ELSE [dict |-> d, exc |-> "TypeError"]

\* a __delete__ that tolerates a missing entry
WeakDelTolerant(d) == [dict |-> DictDel(d, StorageKey), exc |-> "none"]

\* weakattr.__delete__
WeakDel(d) ==
    IF StorageKey \in DOMAIN d
    THEN [dict |-> DictDel(d, StorageKey), exc |-> "none"]
    ELSE [dict |-> d, exc |-> "KeyError"]

\* An object no strong owner and no owning entry holds can be reclaimed.
Owned(o) ==
    \/ o \in strong
    \/ \E i \in Insts : \E n \in DOMAIN wdict[i] : wdict[i][n] = StrongRef(o)

WeakStart ==
    /\ wdict = [i \in Insts |-> EmptyDict]
    /\ strong = Objs
    /\ alive = Objs
    /\ wassigned = [i \in Insts |-> None]
    /\ wdeleted = [i \in Insts |-> FALSE]

\* value = inst.bar; the caller keeps the value it got (keep) or drops it
WeakRead(i, keep) ==
    /\ LookupPath(FooClass, wdict[i], "bar") = "data"
    /\ LET r == WeakGet(wdict[i], alive) IN
         /\ wdict' = [wdict EXCEPT ![i] = r.dict]
         /\ strong' = IF keep /\ r.ret \in Objs THEN strong \cup {r.ret} ELSE strong
         /\ last' = [op |-> "read", inst |-> i, arg |-> None, ret |-> r.ret,
                     exc |-> r.exc, invoked |-> 0]
    /\ UNCHANGED <<alive, wassigned, wdeleted>>
    /\ UNCHANGED notWeak

\* inst.bar = v, for a value the caller has in hand
WeakWrite(i, v) ==
    /\ DefinesSet(FooClass["bar"])
    /\ v \in alive \cup Unrefable
    /\ LET r == WeakSet(wdict[i], v) IN
         /\ wdict' = [wdict EXCEPT ![i] = r.dict]
         /\ wassigned' = IF r.exc = "none" THEN [wassigned EXCEPT ![i] = v] ELSE wassigned
         /\ wdeleted' = IF r.exc = "none" THEN [wdeleted EXCEPT ![i] = FALSE] ELSE wdeleted
         /\ last' = [op |-> "write", inst |-> i, arg |-> v, ret |-> None,
                     exc |-> r.exc, invoked |-> 0]
    /\ UNCHANGED <<strong, alive>>
    /\ UNCHANGED notWeak

\* del inst.bar
WeakDelete(i) ==
    /\ DefinesDelete(FooClass["bar"])
    /\ LET r == WeakDel(wdict[i]) IN
         /\ wdict' = [wdict EXCEPT ![i] = r.dict]
         /\ wdeleted' = IF r.exc = "none" THEN [wdeleted EXCEPT ![i] = TRUE] ELSE wdeleted
         /\ last' = [op |-> "delete", inst |-> i, arg |-> None, ret |-> None,
                     exc |-> r.exc, invoked |-> 0]
    /\ UNCHANGED <<strong, alive, wassigned>>
    /\ UNCHANGED notWeak

\* The last strong owner of o lets go of it ("del obj").
Release(o) ==
    /\ o \in strong
    /\ strong' = strong \ {o}
    /\ last' = [op |-> "release", inst |-> 0, arg |-> o, ret |-> None,
                exc |-> "none", invoked |-> 0]
    /\ UNCHANGED <<wdict, alive, wassigned, wdeleted>>
    /\ UNCHANGED notWeak

\* The memory manager reclaims o, at once or at some later collection.
Collect(o) ==
    /\ o \in alive
    /\ ~ Owned(o)
    /\ alive' = alive \ {o}
    /\ last' = [op |-> "collect", inst |-> 0, arg |-> o, ret |-> None,
                exc |-> "none", invoked |-> 0]
    /\ UNCHANGED <<wdict, strong, wassigned, wdeleted>>
    /\ UNCHANGED notWeak

WeakNext ==
    \/ \E i \in Insts, keep \in BOOLEAN : WeakRead(i, keep)
    \/ \E i \in Insts, v \in Values : WeakWrite(i, v)
    \/ \E i \in Insts : WeakDelete(i)
    \/ \E o \in Objs : Release(o)
    \/ \E o \in Objs : Collect(o)

(***************************************************************************)
(* frozenproperty                                                          *)
(***************************************************************************)

\* The class body: "@frozenproperty def num_legs(self)"
CatClass == [n \in {"num_legs"} |-> "frozenproperty"]

\* a __get__ that keeps what fget returned in the instance dict
FrozenGetCaching(d, val) == [dict |-> DictSet(d, "num_legs", val), ret |-> val]

\* frozenproperty.__get__ after fget returned val
FrozenGet(d, val) == [dict |-> d, ret |-> val]

FrozenStart ==
    /\ fdict = [i \in Insts |-> EmptyDict]
    /\ fcalls = [i \in Insts |-> 0]

\* value = inst.num_legs
FrozenRead(i) ==
    LET path == LookupPath(CatClass, fdict[i], "num_legs") IN
    /\ \/ /\ path = "dict"
          /\ last' = Returned("read", i, None, fdict[i]["num_legs"], 0)
          /\ UNCHANGED frozenVars
       \/ /\ path \in {"descr", "data"}
          /\ fcalls[i] < MaxCalls
          /\ \E val \in Objs :
               LET r == FrozenGet(fdict[i], val) IN
               /\ fdict' = [fdict EXCEPT ![i] = r.dict]
               /\ last' = Returned("read", i, None, r.ret, 1)
          /\ fcalls' = [fcalls EXCEPT ![i] = @ + 1]
    /\ UNCHANGED notFrozen

\* inst.num_legs = v
FrozenWrite(i, v) ==
    /\ ~ DefinesSet(CatClass["num_legs"])
    /\ fdict' = [fdict EXCEPT ![i] = DictSet(fdict[i], "num_legs", v)]
    /\ last' = Returned("write", i, v, None, 0)
    /\ UNCHANGED fcalls
    /\ UNCHANGED notFrozen

\* del inst.num_legs
FrozenDelete(i) ==
    /\ ~ DefinesDelete(CatClass["num_legs"])
    /\ \/ /\ "num_legs" \in DOMAIN fdict[i]
          /\ fdict' = [fdict EXCEPT ![i] = DictDel(fdict[i], "num_legs")]
          /\ last' = Returned("delete", i, None, None, 0)
          /\ UNCHANGED fcalls
       \/ /\ "num_legs" \notin DOMAIN fdict[i]
          /\ last' = Raised("delete", i, None, "AttributeError", 0)
          /\ UNCHANGED frozenVars
    /\ UNCHANGED notFrozen

FrozenNext ==
    \/ \E i \in Insts : FrozenRead(i)
    \/ \E i \in Insts, v \in Objs : FrozenWrite(i, v)
    \/ \E i \in Insts : FrozenDelete(i)

(***************************************************************************)
(* keyed_ordering                                                          *)
(***************************************************************************)

\* The names keyed_ordering goes through, in its order.
SixOps == <<"__eq__", "__ne__", "__lt__", "__gt__", "__le__", "__ge__">>
SixNames == {SixOps[k] : k \in 1..Len(SixOps)}

\* The decorated class, a subclass of it defined with an empty body, and tuple.
Bases(c) == IF c = "Sub" THEN {"Sub", "Point"} ELSE {c}

IsInstance(x, basecls) == basecls \in Bases(x.cls)

\* What __key__ returns: the tuple (self.x, self.y)
Coords == 0..MaxCoord
Keys == {<<x, y>> : x \in Coords, y \in Coords}

UserDefined(name) == [kind |-> "user", op |-> name, base |-> "-"]

\* _keyed_ordering_impl(opname, basecls): the method it builds
KeyedOrderingImpl(opname, basecls) == [kind |-> "synth", op |-> opname, base |-> basecls]

\* Comparison of two numbers by the operator of that name
NumCompare(opname, m, n) ==
    CASE opname = "__eq__" -> m = n
      [] opname = "__ne__" -> m # n
      [] opname = "__lt__" -> m < n
      [] opname = "__gt__" -> m > n
      [] opname = "__le__" -> m <= n
      [] opname = "__ge__" -> m >= n

\* The first index at which two tuples differ, 0 when one is a prefix of the other
RECURSIVE FirstDiff(_, _, _)
FirstDiff(x, y, k) ==
    IF k > Len(x) \/ k > Len(y) THEN 0
    ELSE IF x[k] # y[k] THEN k
    ELSE FirstDiff(x, y, k + 1)

\* getattr(operator, opname) applied to two tuples: the items at the first
\* difference decide, the lengths when there is none
OperatorNamed(opname, x, y) ==
    LET k == FirstDiff(x, y, 1) IN
    IF k = 0 THEN NumCompare(opname, Len(x), Len(y))
    ELSE IF opname = "__eq__" THEN FALSE
    ELSE IF opname = "__ne__" THEN TRUE
    ELSE NumCompare(opname, x[k], y[k])

PyBool(b) == IF b THEN "True" ELSE "False"

\* a method that applies the operator to the keys the other way round
MethodSwapped(impl, self, other) ==
    IF ~ IsInstance(other, impl.base)
    THEN [ret |-> "NotImplemented", keycalls |-> 0]
    ELSE [ret |-> PyBool(OperatorNamed(impl.op, other.key, self.key)), keycalls |-> 2]

\* a method that answers False, not the sentinel, to a value of another type
MethodNoSentinel(impl, self, other) ==
    IF ~ IsInstance(other, impl.base)
    THEN [ret |-> "False", keycalls |-> 0]
    ELSE [ret |-> PyBool(OperatorNamed(impl.op, self.key, other.key)), keycalls |-> 2]

\* method(self, other) of _keyed_ordering_impl
Method(impl, self, other) ==
    IF ~ IsInstance(other, impl.base)
    THEN [ret |-> "NotImplemented", keycalls |-> 0]
    ELSE [ret |-> PyBool(OperatorNamed(impl.op, self.key, other.key)), keycalls |-> 2]

\* a decorator that sets all six methods, whatever the class body holds
KeyedOrderingOverwrite(body, cls) ==
    IF "__key__" \notin DOMAIN body
    THEN [body |-> body, installed |-> {}, exc |-> "TypeError"]
    ELSE [body |-> [n \in DOMAIN body \cup SixNames |->
                      IF n \in SixNames THEN KeyedOrderingImpl(n, cls) ELSE body[n]],
          installed |-> SixNames,
          exc |-> "none"]

\* a decorator that looks for __key__ after it has set the methods
KeyedOrderingLateCheck(body, cls) ==
    [body |-> [n \in DOMAIN body \cup SixNames |->
                 IF n \in DOMAIN body THEN body[n] ELSE KeyedOrderingImpl(n, cls)],
     installed |-> SixNames \ DOMAIN body,
     exc |-> IF "__key__" \notin DOMAIN body THEN "TypeError" ELSE "none"]

\* keyed_ordering(cls) on a class with this __dict__: the __dict__ after it,
\* the names it called setattr for, and what it raised
KeyedOrdering(body, cls) ==
    IF "__key__" \notin DOMAIN body
    THEN [body |-> body, installed |-> {}, exc |-> "TypeError"]
    ELSE [body |-> [n \in DOMAIN body \cup SixNames |->
                      IF n \in DOMAIN body THEN body[n] ELSE KeyedOrderingImpl(n, cls)],
          installed |-> SixNames \ DOMAIN body,
          exc |-> "none"]

NoOperands == [self |-> [cls |-> "-", key |-> <<>>], other |-> [cls |-> "-", key |-> <<>>]]
NoCmp == [op |-> "-", kind |-> "-", ret |-> "-", keycalls |-> 0]

\* The class bodies of the tests: __key__ alone, __eq__ and __key__, neither.
ClassBodies ==
    {[n \in S |-> UserDefined(n)] : S \in {{"__key__"}, {"__eq__", "__key__"}, {}}}

\* Every class body: any of the six methods and __key__, written or not.
AllBodies ==
    {[n \in S |-> UserDefined(n)] : S \in SUBSET (SixNames \cup {"__key__"})}

DecorateStart ==
    /\ cbody \in AllBodies
    /\ status = "raw"
    /\ installed = {}
    /\ operands = NoOperands
    /\ cmp = NoCmp

OrderStart ==
    /\ cbody \in ClassBodies
    /\ status = "raw"
    /\ installed = {}
    /\ operands = NoOperands
    /\ cmp = NoCmp

OrderIdle ==
    /\ cbody = EmptyDict
    /\ status = "raw"
    /\ installed = {}
    /\ operands = NoOperands
    /\ cmp = NoCmp

\* Point = keyed_ordering(Point)
Decorate ==
    /\ status # "TypeError"
    /\ LET r == KeyedOrdering(cbody, "Point") IN
         /\ cbody' = r.body
         /\ installed' = r.installed
         /\ status' = IF r.exc = "none" THEN "done" ELSE r.exc
    /\ UNCHANGED <<operands, cmp>>
    /\ UNCHANGED notOrder

\* Two values are created: an instance of the decorated class or of its
\* subclass, and another such instance or a plain tuple.
Instantiate ==
    /\ status = "done"
    /\ operands = NoOperands
    /\ \E c \in {"Point", "Sub"}, d \in {"Point", "Sub", "tuple"}, k \in Keys, l \in Keys :
         operands' = [self |-> [cls |-> c, key |-> k], other |-> [cls |-> d, key |-> l]]
    /\ UNCHANGED <<cbody, status, installed, cmp>>
    /\ UNCHANGED notOrder

\* type(self).<opname>(self, other), a method keyed_ordering built
CallSynthesized(opname) ==
    /\ operands # NoOperands
    /\ cbody[opname].kind = "synth"
    /\ LET r == Method(cbody[opname], operands.self, operands.other) IN
         cmp' = [op |-> opname, kind |-> "synth", ret |-> r.ret, keycalls |-> r.keycalls]
    /\ UNCHANGED <<cbody, status, installed, operands>>
    /\ UNCHANGED notOrder

\* type(self).<opname>(self, other), a method of the class body: whatever it returns
CallUserDefined(opname) ==
    /\ operands # NoOperands
    /\ cbody[opname].kind = "user"
    /\ \E r \in {"True", "False", "NotImplemented"} :
         cmp' = [op |-> opname, kind |-> "user", ret |-> r, keycalls |-> 0]
    /\ UNCHANGED <<cbody, status, installed, operands>>
    /\ UNCHANGED notOrder

\* The name of the method the interpreter tries on the right operand
Reflected(opname) ==
    CASE opname = "__eq__" -> "__eq__"
      [] opname = "__ne__" -> "__ne__"
      [] opname = "__lt__" -> "__gt__"
      [] opname = "__gt__" -> "__lt__"
      [] opname = "__le__" -> "__ge__"
      [] opname = "__ge__" -> "__le__"

\* a dispatch that answers from the keys whatever the class body wrote
CallOnKeysOnly(x, opname, y, u) ==
    IF x.cls = "tuple"
    THEN IF y.cls = "tuple" THEN PyBool(OperatorNamed(opname, x.key, y.key))
         ELSE "NotImplemented"
    ELSE Method(KeyedOrderingImpl(opname, "Point"), x, y).ret

\* type(x).<opname>(x, y): tuple compares with tuples alone; an instance of
\* the class or of its subclass (whose body is empty) uses the method in the
\* class __dict__, and a method written in the class body answers u.
CallOn(x, opname, y, u) ==
    IF x.cls = "tuple"
    THEN IF y.cls = "tuple" THEN PyBool(OperatorNamed(opname, x.key, y.key))
         ELSE "NotImplemented"
    ELSE IF cbody[opname].kind = "synth" THEN Method(cbody[opname], x, y).ret
    ELSE u

\* a comparison that takes a declined operation for the answer False
RichCompareNoFallback(opname, x, y, same, u) ==
    LET fwd == CallOn(x, opname, y, u) IN
    IF fwd # "NotImplemented" THEN fwd ELSE "False"

\* The expression x <op> y: the reflected method of y first when type(y) is a
\* proper subclass of type(x), then the method of x, then the reflected
\* method of y; when every method called returned NotImplemented, == and !=
\* compare identities and the ordering operators raise TypeError.
RichCompare(opname, x, y, same, u) ==
    LET subFirst == x.cls # y.cls /\ x.cls \in Bases(y.cls)
        fwd == CallOn(x, opname, y, u)
        rev == CallOn(y, Reflected(opname), x, u)
    IN  IF subFirst /\ rev # "NotImplemented" THEN rev
        ELSE IF fwd # "NotImplemented" THEN fwd
        ELSE IF ~ subFirst /\ rev # "NotImplemented" THEN rev
        ELSE IF opname = "__eq__" THEN PyBool(same)
        ELSE IF opname = "__ne__" THEN PyBool(~ same)
        ELSE "TypeError"

\* What a method written in the class body may answer when the expression
\* reaches one; "-" when the expression reaches none.
UserResults(opname) ==
    IF cbody[opname].kind = "user" \/ cbody[Reflected(opname)].kind = "user"
    THEN {"True", "False", "NotImplemented"}
    ELSE {"-"}

\* One expression  l <op> r  on the two values, each on either side. Its
\* result depends on no earlier expression, so each pair of values is the
\* subject of one.
Compare(opname, l, r) ==
    /\ operands # NoOperands
    /\ cmp = NoCmp
    /\ \E u \in UserResults(opname) :
         cmp' = [op |-> opname, kind |-> "expr", left |-> l, right |-> r, user |-> u,
                 ret |-> RichCompare(opname, operands[l], operands[r], l = r, u)]
    /\ UNCHANGED <<cbody, status, installed, operands>>
    /\ UNCHANGED notOrder

OrderNext ==
    \/ Decorate
    \/ Instantiate
    \/ \E opname \in SixNames : CallSynthesized(opname)
    \/ \E opname \in SixNames : CallUserDefined(opname)
    \/ \E opname \in SixNames, l \in {"self", "other"}, r \in {"self", "other"} :
         Compare(opname, l, r)

(***************************************************************************)
(* The specifications, one per component                                   *)
(***************************************************************************)

Init == ClassStart /\ ReifyStart /\ ThreadStart /\ WeakStart /\ FrozenStart /\ OrderIdle /\ last = NoOp

SpecClass == Init /\ [][ClassNext]_vars

SpecReify == Init /\ [][ReifyNext]_vars

AliasInit ==
    /\ ClassStart /\ ReifyStartAlias /\ ThreadStart /\ WeakStart /\ FrozenStart /\ OrderIdle
    /\ last = NoOp
\* reads, assignments and deletes of the property on one instance
AliasNext ==
    \/ ReifyRead(Shared)
    \/ \E v \in Objs : ReifyWrite(Shared, v)
    \/ ReifyDelete(Shared)

SpecReifyAlias == AliasInit /\ [][AliasNext]_vars

SpecReifyThreads == Init /\ [][ThreadNext]_vars

SpecWeak == Init /\ [][WeakNext]_vars

SpecFrozen == Init /\ [][FrozenNext]_vars

OrderInit == ClassStart /\ ReifyStart /\ ThreadStart /\ WeakStart /\ FrozenStart /\ OrderStart /\ last = NoOp
SpecOrder == OrderInit /\ [][OrderNext]_vars

\* The decorator alone, applied again and again to a class of any body
DecorateInit == ClassStart /\ ReifyStart /\ ThreadStart /\ WeakStart /\ FrozenStart /\ DecorateStart /\ last = NoOp
SpecDecorate == DecorateInit /\ [][Decorate]_vars

(***************************************************************************)
(* Claims                                                                  *)
(***************************************************************************)

Computed(i) == WrappedName \in DOMAIN rdict[i]

ReadOf(i) == last'.op = "read" /\ last'.inst = i
WriteOf(i) == last'.op = "write" /\ last'.inst = i
DeleteOf(i) == last'.op = "delete" /\ last'.inst = i

\* C1: on every instance the wrapped method is called at most once between
\* the instance's creation and the first successful delete, and at most once
\* between two consecutive successful deletes.
C1_OncePerPeriod == \A i \in Insts : rcalls[i] <= 1

\* a read served without a call, in a period that already had its one call
C1_Witness ==
    \E i \in Insts :
        /\ rcalls[i] = 1
        /\ last.op = "read" /\ last.inst = i /\ last.invoked = 0

\* C2: a read while Uncomputed calls the wrapped method exactly once, stores
\* its result under the method's name, returns it and leaves the instance
\* Computed; a read while Computed returns the stored object, calls nothing
\* and changes nothing.
C2_ReadComputesThenReuses ==
    [][\A i \in Insts : ReadOf(i) =>
          IF ~ Computed(i)
          THEN /\ last'.invoked = 1 /\ last'.exc = "none"
               /\ rcalls'[i] = rcalls[i] + 1
               /\ WrappedName \in DOMAIN rdict'[i]
               /\ rdict'[i][WrappedName] = last'.ret
               /\ \A j \in Insts \ {i} : rdict'[j] = rdict[j]
          ELSE /\ last'.invoked = 0 /\ last'.exc = "none"
               /\ last'.ret = rdict[i][WrappedName]
               /\ rdict' = rdict /\ rcalls' = rcalls]_vars

\* a second read that returned the object the computing read stored
C2_Witness ==
    \E i \in Insts :
        /\ last.op = "read" /\ last.inst = i /\ last.invoked = 0
        /\ rcalls[i] = 1 /\ Computed(i) /\ last.ret = rdict[i][WrappedName]
        /\ \A j \in Insts \ {i} : rcalls[j] = 0 /\ ~ Computed(j)

\* C3: a write of v, Computed or not, puts v in the instance dict and leaves
\* the instance Computed without calling the wrapped method; the read after
\* it returns v, and no step taken while the instance is Computed calls the
\* wrapped method (after a write while Uncomputed: none until a delete).
C3_WriteOverridesWithoutCall ==
    [][\A i \in Insts :
          /\ WriteOf(i) =>
                /\ Computed(i)' /\ rdict'[i][WrappedName] = last'.arg
                /\ last'.invoked = 0 /\ last'.exc = "none" /\ rcalls' = rcalls
                /\ \A j \in Insts \ {i} : rdict'[j] = rdict[j]
          /\ (last.op = "write" /\ last.inst = i /\ ReadOf(i)) =>
                last'.ret = last.arg /\ last'.invoked = 0
          /\ Computed(i) => rcalls'[i] <= rcalls[i]]_vars

\* a read that returned the value written to a never-computed instance
C3_Witness ==
    \E i \in Insts :
        /\ last.op = "read" /\ last.inst = i /\ last.invoked = 0
        /\ rcalls[i] = 0 /\ Computed(i) /\ last.ret = rdict[i][WrappedName]

\* C4: a delete succeeds exactly when the instance is Computed (after a read
\* or a write with no delete since); a successful delete removes the value
\* and leaves the instance Uncomputed, so the next read calls the wrapped
\* method again; a delete while Uncomputed raises, changes nothing and calls
\* nothing.
C4_DeleteEvicts ==
    [][\A i \in Insts :
          /\ DeleteOf(i) =>
                /\ last'.invoked = 0
                /\ \A j \in Insts \ {i} : rdict'[j] = rdict[j] /\ rcalls'[j] = rcalls[j]
                /\ IF Computed(i)
                   THEN last'.exc = "none" /\ ~ Computed(i)'
                   ELSE last'.exc = "AttributeError" /\ rdict' = rdict /\ rcalls' = rcalls
          /\ (DeleteOf(i) /\ (rcalls[i] > 0 \/ (last.op = "write" /\ last.inst = i))) =>
                last'.exc = "none"
          /\ (last.op = "delete" /\ last.inst = i /\ ReadOf(i)) =>
                last'.invoked = 1]_vars

\* a successful delete of a computed value: the instance is Uncomputed again
C4_Witness ==
    \E i \in Insts :
        /\ last.op = "delete" /\ last.inst = i /\ last.exc = "none"
        /\ ~ Computed(i) /\ rcalls[i] = 0

HasEntry(i) == StorageKey \in DOMAIN wdict[i]

\* C5: a read never raises; it returns None when the instance dict has no
\* entry under the storage key or the entry's referent has been reclaimed,
\* and otherwise the very object last assigned.
C5_ReadNeverRaises ==
    [][\A i \in Insts : ReadOf(i) =>
          /\ last'.exc = "none"
          /\ last'.ret = IF ~ HasEntry(i) \/ wdict[i][StorageKey].obj \notin alive
                         THEN None
                         ELSE wassigned[i]]_vars

\* a read that found the referent of its entry reclaimed, and returned None
C5_Witness ==
    \E i \in Insts :
        /\ last.op = "read" /\ last.inst = i /\ last.ret = None /\ last.exc = "none"
        /\ wassigned[i] \in Objs \ alive
        /\ \E j \in Insts : HasEntry(j) /\ wassigned[j] \in alive

\* C6: an entry never owns the assigned object: whatever was written and
\* read, an object no strong owner holds can be reclaimed; a read never
\* returns a reclaimed object, nothing reclaimed comes back, and a read of
\* an entry whose referent is reclaimed returns None.
C6_EntryOwnsNothing ==
    /\ [](\A o \in alive \ strong : ENABLED Collect(o))
    /\ [][/\ alive' \subseteq alive
          /\ \A i \in Insts : ReadOf(i) =>
                /\ last'.ret # None => last'.ret \in alive
                /\ (HasEntry(i) /\ wdict[i][StorageKey].obj \notin alive) =>
                      last'.ret = None]_vars

\* an object was reclaimed while an entry still referred to it
C6_Witness ==
    \E i \in Insts :
        /\ last.op = "collect"
        /\ HasEntry(i) /\ wdict[i][StorageKey].obj = last.arg
        /\ last.arg \notin alive

\* C7: a write of a value that cannot be weakly referenced raises TypeError,
\* stores nothing and leaves every instance dict as it was: an entry present
\* before is still there with its referent, and no entry owns its referent.
C7_UnrefableWriteFails ==
    /\ [][\A i \in Insts : (WriteOf(i) /\ ~ WeakRefable(last'.arg)) =>
              /\ last'.exc = "TypeError"
              /\ wdict' = wdict /\ strong' = strong /\ alive' = alive]_vars
    /\ [](\A i \in Insts : \A n \in DOMAIN wdict[i] : wdict[i][n].weak)

\* a failed write on an instance whose entry still refers to a live object
C7_Witness ==
    \E i \in Insts :
        /\ last.op = "write" /\ last.inst = i /\ last.exc = "TypeError"
        /\ HasEntry(i) /\ Deref(wdict[i][StorageKey], alive) \in Objs

\* C8: a delete removes the entry under the storage key, and the read after
\* it returns None; with no entry the delete raises and changes nothing.
C8_DeleteRemovesEntry ==
    [][\A i \in Insts :
          /\ DeleteOf(i) =>
                /\ \A j \in Insts \ {i} : wdict'[j] = wdict[j]
                /\ IF HasEntry(i)
                   THEN last'.exc = "none" /\ ~ HasEntry(i)'
                   ELSE last'.exc = "KeyError" /\ wdict' = wdict
          /\ (last.op = "delete" /\ last.inst = i /\ last.exc = "none" /\ ReadOf(i)) =>
                last'.ret = None /\ last'.exc = "none"]_vars

\* a successful delete of an entry whose referent is alive and owned
C8_Witness ==
    \E i \in Insts :
        /\ last.op = "delete" /\ last.inst = i /\ last.exc = "none"
        /\ ~ HasEntry(i) /\ wassigned[i] \in strong

Overridden(i) == "num_legs" \in DOMAIN fdict[i]

\* C9: a read calls fget exactly when the instance holds no override under
\* the name, and then stores nothing, so every such read calls it again;
\* while an override exists a read returns the assigned value and calls
\* nothing; after the override is removed reads call fget again.
C9_ReadCallsUnlessOverridden ==
    [][\A i \in Insts :
          /\ ReadOf(i) =>
                /\ last'.exc = "none" /\ fdict' = fdict
                /\ IF Overridden(i)
                   THEN /\ last'.invoked = 0 /\ fcalls' = fcalls
                        /\ last'.ret = fdict[i]["num_legs"]
                   ELSE /\ last'.invoked = 1 /\ fcalls'[i] = fcalls[i] + 1
          /\ WriteOf(i) =>
                Overridden(i)' /\ fdict'[i]["num_legs"] = last'.arg /\ fcalls' = fcalls
          /\ (DeleteOf(i) /\ Overridden(i)) =>
                last'.exc = "none" /\ ~ Overridden(i)' /\ fcalls' = fcalls]_vars

\* a read that called fget again on an instance it was already called on
C9_Witness ==
    \E i \in Insts :
        /\ last.op = "read" /\ last.inst = i /\ last.invoked = 1
        /\ fcalls[i] >= 2 /\ ~ Overridden(i)

\* Lexicographic order on tuples: x is below y when, at the first place they
\* differ, x has the smaller item, or x is a proper prefix of y.
LexLess(x, y) ==
    \E k \in 1..Len(y) :
        /\ \A j \in 1..(k - 1) : j <= Len(x) /\ x[j] = y[j]
        /\ \/ k = Len(x) + 1
           \/ k <= Len(x) /\ x[k] < y[k]

KeyRelation(opname, x, y) ==
    CASE opname = "__eq__" -> x = y
      [] opname = "__ne__" -> x # y
      [] opname = "__lt__" -> LexLess(x, y)
      [] opname = "__gt__" -> LexLess(y, x)
      [] opname = "__le__" -> LexLess(x, y) \/ x = y
      [] opname = "__ge__" -> LexLess(y, x) \/ x = y

\* C10: the result of a synthesized operation on two instances of the
\* decorated class (or of a subclass) is the same relation between their
\* keys, the lexicographic order of the tuples; with keys (1,3) and (2,0),
\* <, <= and != are true in that order and >, >= and != in the reverse order,
\* every other one of the six false.
C10_ComparesKeys ==
    (cmp.kind = "synth" /\ IsInstance(operands.other, "Point")) =>
        /\ cmp.ret = PyBool(KeyRelation(cmp.op, operands.self.key, operands.other.key))
        /\ (operands.self.key = <<1, 3>> /\ operands.other.key = <<2, 0>>) =>
              cmp.ret = PyBool(cmp.op \in {"__lt__", "__le__", "__ne__"})
        /\ (operands.self.key = <<2, 0>> /\ operands.other.key = <<1, 3>>) =>
              cmp.ret = PyBool(cmp.op \in {"__gt__", "__ge__", "__ne__"})

\* p >= q was called on p = Point(1, 3) and an instance q of the subclass with key (2, 0)
C10_Witness ==
    /\ cmp.kind = "synth" /\ cmp.op = "__ge__" /\ cmp.ret = "False"
    /\ operands.self = [cls |-> "Point", key |-> <<1, 3>>]
    /\ operands.other = [cls |-> "Sub", key |-> <<2, 0>>]

\* C11: a synthesized operation returns NotImplemented, without calling
\* __key__ on either operand, exactly when other is not an instance of the
\* decorated class or of a subclass of it; for such an instance it returns
\* True or False.
C11_SentinelForOtherTypes ==
    cmp.kind = "synth" =>
        IF operands.other.cls \in {"Point", "Sub"}
        THEN cmp.ret \in {"True", "False"}
        ELSE cmp.ret = "NotImplemented" /\ cmp.keycalls = 0

\* p == (1, 3) was called on p = Point(1, 3): the tuple equal to the key got the sentinel
C11_Witness ==
    /\ cmp.kind = "synth" /\ cmp.op = "__eq__" /\ cmp.ret = "NotImplemented"
    /\ operands.self = [cls |-> "Point", key |-> <<1, 3>>]
    /\ operands.other = [cls |-> "tuple", key |-> <<1, 3>>]


\* an expression == or != whose operands are an instance and the plain tuple
MixedEquality ==
    /\ cmp.kind = "expr" /\ cmp.op \in {"__eq__", "__ne__"}
    /\ operands.other.cls = "tuple" /\ cmp.left # cmp.right

\* the statement for every decorated class: such an expression is False for
\* == and True for !=, whatever the class body wrote itself
C12_AnyDecoratedClass ==
    MixedEquality => cmp.ret = (IF cmp.op = "__eq__" THEN "False" ELSE "True")

\* C12: for == and != that keyed_ordering synthesized, comparing an instance
\* of the decorated class with a value that is no instance and whose type
\* declines the comparison (a plain tuple, even one equal to the key) raises
\* nothing and is not equal: == is False and != is True, with the instance on
\* the left or on the right.
C12_NotEqualToOtherTypes ==
    (MixedEquality /\ cbody[cmp.op].kind = "synth") =>
        cmp.ret = (IF cmp.op = "__eq__" THEN "False" ELSE "True")

\* (1, 3) != Point(1, 3) was evaluated, the tuple on the left, and was True
C12_Witness ==
    /\ cmp.kind = "expr" /\ cmp.op = "__ne__" /\ cmp.ret = "True"
    /\ cmp.left = "other" /\ cmp.right = "self"
    /\ cbody["__ne__"].kind = "synth"
    /\ operands.self = [cls |-> "Point", key |-> <<1, 3>>]
    /\ operands.other = [cls |-> "tuple", key |-> <<1, 3>>]


\* C13: an application that succeeds calls setattr for exactly those of the
\* six names the class __dict__ lacks, each then holding a synthesized
\* method, and leaves every entry the __dict__ already had as it was; applied
\* to a class already decorated it sets nothing and leaves the __dict__ as
\* it is.
C13_SelectiveIdempotent ==
    [][status' = "done" =>
          /\ installed' = SixNames \ DOMAIN cbody
          /\ DOMAIN cbody' = DOMAIN cbody \cup SixNames
          /\ \A n \in DOMAIN cbody : cbody'[n] = cbody[n]
          /\ \A n \in installed' : cbody'[n].kind = "synth" /\ cbody'[n].op = n
          /\ status = "done" => (installed' = {} /\ cbody' = cbody)]_vars

\* the class with __eq__ written in its body, after the second application:
\* nothing set, __eq__ still the written one, the other five synthesized
C13_Witness ==
    /\ status = "done" /\ installed = {}
    /\ cbody["__eq__"].kind = "user"
    /\ \A n \in SixNames \ {"__eq__"} : cbody[n].kind = "synth"

\* C14: applied to a class whose __dict__ lacks __key__, keyed_ordering raises
\* TypeError having set no method; the class __dict__ is as before, and no
\* instance exists and no comparison was made once it has raised.
C14_MissingKeyFailsAtOnce ==
    /\ [][("__key__" \notin DOMAIN cbody) =>
              /\ status' = "TypeError"
              /\ installed' = {}
              /\ cbody' = cbody]_vars
    /\ [](status = "TypeError" =>
              /\ "__key__" \notin DOMAIN cbody
              /\ \A n \in SixNames \cap DOMAIN cbody : cbody[n].kind = "user"
              /\ operands = NoOperands /\ cmp = NoCmp)

\* the decorator has raised on a class that wrote __lt__ but no __key__
C14_Witness ==
    /\ status = "TypeError"
    /\ DOMAIN cbody = {"__lt__"}


\* C15: every read of the property, through the class or through an instance
\* of it, calls the accessor once with the class, never with the instance,
\* and returns what the accessor returned, so the read through the class and
\* the read through an instance give the same; the calls of the accessor are
\* as many as the reads, on every path.
C15_ReadCallsWithClass ==
    /\ [][\A r \in {None} \cup Insts :
              (last'.op = "read" /\ last'.inst = r) =>
                  /\ last'.arg = Reflector /\ last'.arg # r
                  /\ last'.ret = Fget(Reflector) /\ last'.exc = "none"
                  /\ last'.invoked = 1
                  /\ pcalls'[r] = pcalls[r] + 1]_vars
    /\ [](\A r \in {None} \cup Insts : pcalls[r] = preads[r])

\* the second read through instance 1, after one through the class: the
\* accessor got the class again and was called a third time
C15_Witness ==
    /\ last.op = "read" /\ last.inst = 1 /\ last.arg = Reflector /\ last.ret = Reflector
    /\ preads[None] = 1 /\ preads[1] = 2
    /\ pcalls[None] + pcalls[1] = 3


\* the instance dict holds an entry whose referent has been reclaimed
Stale(i) == HasEntry(i) /\ wdict[i][StorageKey].obj \notin alive

\* C16: a read that finds the referent of the entry reclaimed removes the
\* entry and returns None; a read that finds a live referent, or no entry,
\* leaves the instance dict as it is; no read touches another instance, and
\* after a read the instance dict holds no entry whose referent was reclaimed
\* when the read was made.
C16_ReadRemovesStaleEntry ==
    [][\A i \in Insts : ReadOf(i) =>
          /\ IF Stale(i)
             THEN ~ HasEntry(i)' /\ last'.ret = None /\ last'.exc = "none"
             ELSE wdict'[i] = wdict[i]
          /\ \A j \in Insts \ {i} : wdict'[j] = wdict[j]
          /\ alive' = alive
          /\ ~ Stale(i)']_vars

\* both instances were assigned one object, since reclaimed; the read of
\* instance 1 returned None and left it without an entry, instance 2 still
\* holds the dead one
C16_Witness ==
    /\ last.op = "read" /\ last.inst = 1 /\ last.ret = None
    /\ ~ HasEntry(1) /\ Stale(2)
    /\ wassigned[1] = wassigned[2]


\* C19: whether a delete succeeds depends on the entry alone, not on whether
\* its referent lives: with an entry it succeeds and removes it, though the
\* referent be reclaimed; with none it raises KeyError. So after a write
\* whose referent is then reclaimed, a delete made before any read succeeds,
\* and a delete made after a read, which removed the dead entry, raises
\* though no delete was made since the write.
C19_DeleteSeesEntryNotReferent ==
    [][\A i \in Insts :
          /\ DeleteOf(i) =>
                /\ (last'.exc = "none") <=> HasEntry(i)
                /\ (last'.exc = "KeyError") <=> ~ HasEntry(i)
          /\ (DeleteOf(i) /\ Stale(i)) => (last'.exc = "none" /\ ~ HasEntry(i)')
          /\ (DeleteOf(i) /\ last.op = "read" /\ last.inst = i /\ last.ret = None) =>
                last'.exc = "KeyError"
          /\ (ReadOf(i) /\ Stale(i)) => (~ HasEntry(i)' /\ wdeleted'[i] = wdeleted[i])]_vars

\* a delete has raised on an instance that was assigned an object, since
\* reclaimed, and on which no delete has succeeded since
C19_Witness ==
    \E i \in Insts :
        /\ last.op = "delete" /\ last.inst = i /\ last.exc = "KeyError"
        /\ wassigned[i] \in Objs \ alive
        /\ ~ wdeleted[i]


\* C17: with several threads reading one instance, the call of the wrapped
\* method and the setattr are separate steps: every thread that found the
\* instance Uncomputed calls the wrapped method, so the instance sees up to
\* one call per thread with no delete between; each such read returns the
\* value its own call produced, and its setattr overwrites what an earlier
\* one stored, so the instance dict holds the value of the thread that
\* stored last.
C17_LastStoreWins ==
    /\ [][\A t \in Threads :
              (tpc[t] = "store" /\ tpc'[t] = "idle") =>
                  /\ WrappedName \in DOMAIN rdict'[Shared]
                  /\ rdict'[Shared][WrappedName] = tval[t]
                  /\ last'.ret = tval[t] /\ last'.inst = Shared /\ last'.invoked = 1]_vars
    /\ [](rcalls[Shared] <= NumThreads)

\* the shared instance was never deleted from, its wrapped method was called
\* twice, its reads returned two different values, and its dict holds the
\* value the read that stored last returned
C17_Witness ==
    /\ rcalls[Shared] = 2
    /\ Cardinality(returned) = 2
    /\ last.op = "read" /\ last.inst = Shared /\ last.invoked = 1
    /\ Computed(Shared) /\ rdict[Shared][WrappedName] = last.ret
    /\ \A t \in Threads : tpc[t] = "idle"


\* C18: in the decorated class whose body wrote an __eq__ that returns True
\* and left the other five to keyed_ordering, a == b is True for an instance
\* a and any b, an instance of whatever key or a value of another type, while
\* !=, <, >, <= and >= between two instances are the relations of their
\* keys: with different keys a != b is True, and a < b is True exactly when
\* the key of a is the smaller, for the very operands that are ==.
C18_WrittenEqKept ==
    (cmp.kind = "expr" /\ cbody["__eq__"].kind = "user") =>
        LET a == operands[cmp.left]
            b == operands[cmp.right]
        IN  /\ \A n \in SixNames \ {"__eq__"} : cbody[n].kind = "synth"
            /\ (cmp.op = "__eq__" /\ cmp.user = "True" /\ a.cls # "tuple") =>
                  cmp.ret = "True"
            /\ (cmp.op # "__eq__" /\ a.cls # "tuple" /\ b.cls # "tuple") =>
                  /\ cmp.ret = PyBool(KeyRelation(cmp.op, a.key, b.key))
                  /\ (a.key # b.key /\ cmp.op = "__ne__") => cmp.ret = "True"
                  /\ (LexLess(a.key, b.key) /\ cmp.op = "__lt__") => cmp.ret = "True"

\* a == b was evaluated on two instances of keys (1, 3) and (2, 0) of the
\* class with the written __eq__, and was True
C18_Witness ==
    /\ cmp.kind = "expr" /\ cmp.op = "__eq__" /\ cmp.user = "True" /\ cmp.ret = "True"
    /\ cmp.left = "self" /\ cmp.right = "other"
    /\ cbody["__eq__"].kind = "user" /\ cbody["__lt__"].kind = "synth"
    /\ operands.self = [cls |-> "Point", key |-> <<1, 3>>]
    /\ operands.other = [cls |-> "Point", key |-> <<2, 0>>]


\* the instance dict holds a value under the name the property is installed as
Shadowed(i) == installedAs \in DOMAIN rdict[i]

\* C20: __get__ stores under the name of the wrapped method. Installed under
\* another name, the property is never shadowed by what a read stores: no read
\* puts the installed name in the instance dict, so every read of the
\* property (not shadowed by an explicit assignment) calls the wrapped method
\* again, though a value is stored already, and overwrites the attribute
\* named after the method with the new result; a delete of the property
\* after such a read raises and changes nothing.
C20_StoredUnderMethodName ==
    /\ [](installedAs # WrappedName)
    /\ [][\A i \in Insts :
              /\ ReadOf(i) =>
                    /\ Shadowed(i)' <=> Shadowed(i)
                    /\ ~ Shadowed(i) =>
                          /\ last'.invoked = 1 /\ rcalls'[i] = rcalls[i] + 1
                          /\ WrappedName \in DOMAIN rdict'[i]
                          /\ rdict'[i][WrappedName] = last'.ret
              /\ (DeleteOf(i) /\ ~ Shadowed(i)) =>
                    (last'.exc = "AttributeError" /\ rdict' = rdict)
              /\ (DeleteOf(i) /\ last.op = "read" /\ last.inst = i /\ last.invoked = 1) =>
                    last'.exc = "AttributeError"]_vars

\* a delete has raised on an instance whose wrapped method two reads in a row
\* had called, the second result stored under the method's name
C20_Witness ==
    \E i \in Insts :
        /\ installedAs = "alias"
        /\ last.op = "delete" /\ last.inst = i /\ last.exc = "AttributeError"
        /\ rcalls[i] = 2 /\ ~ Shadowed(i)
        /\ WrappedName \in DOMAIN rdict[i]

====
